---- MODULE Spec2Model ----
(***************************************************************************)
(* Model of the real-time connection manager of the group-chat backend     *)
(* (src/groups-backend/websocket_manager.py) and of the session handler    *)
(* that drives it (src/groups-backend/websocket_routes.py).                *)
(*                                                                         *)
(* The program runs on one asyncio event loop: a task runs alone until it  *)
(* awaits something that suspends it (a send on a socket, a receive, the   *)
(* data store, a contended lock).  `running` is the task that has the      *)
(* loop; 0 means every task is suspended and the loop picks one that can   *)
(* resume.  Each task has a stack of the manager coroutines it is inside.  *)
(***************************************************************************)
EXTENDS Integers, Sequences, FiniteSets, TLC

(* ---- bounds ---- *)
NumConns == 3       \* connections, one session handler each
ChatSessions == 2   \* sessions that run when inbound frames are dispatched
MaxFrames == 2      \* inbound frames dispatched, all sessions together
SoloFrames == 3     \* inbound frames dispatched while one session is alone
MaxFails == 2       \* sends that fail, all broadcasts together
MaxRequests == 1    \* requests and inbound frames while requests are served

Conns == 1..NumConns
Tasks == Conns
Rooms == {"r1", "r2"}
Users == {"u1", "u2"}
Ord(n) == IF n \in {"r1", "u1"} THEN 1 ELSE 2
NoConn == 0
NoTask == NoConn

VARIABLES
    group_connections,   \* room -> set of connections (only rooms with a key)
    connection_info,     \* connection -> <<user, room>> (only registered ones)
    typing_users,        \* room -> set of users (only rooms with a key)
    locked,              \* asyncio.Lock._locked
    waiters,             \* asyncio.Lock._waiters, oldest first
    hpc,                 \* position of each session handler
    hroom, huser,        \* path parameter and token subject of each session
    htoken,              \* what the token query parameter of each session is
    group_members,       \* the store's group_members table: <<room, user>> rows
    hframe,              \* number of the inbound frame each session deals with
    nframes,             \* inbound frames dispatched so far
    nfails,              \* sends that have failed so far
    stack,               \* manager coroutines each task is inside, outermost first
    running,             \* task that has the event loop, NoTask if all are suspended
    received,            \* events each connection's transport has taken, with
                         \* the number of times it has taken each
    heard,               \* history: the chat events each connection has taken,
                         \* in the order it took them
    peers,               \* history: the others in the room when c was registered
    left,                \* history: the room's set right after c was removed
    removed,             \* history: connections a disconnect has deregistered
    absorbed,            \* history: for each connection, the broadcasts that
                         \* have returned after a send to it failed
    dropped              \* history: failed connections whose broadcast raised

vars == <<group_connections, connection_info, typing_users, locked, waiters,
          group_members, hpc, hroom, huser, htoken, hframe, nframes, nfails, stack, running,
          received, heard, peers, left, removed, absorbed, dropped>>

registry == <<group_connections, connection_info, typing_users>>
lock == <<locked, waiters>>
session == <<hpc, hroom, huser, htoken, hframe, nframes>>
history == <<peers, left, removed, absorbed, dropped>>
ChatTypes == {"typing_start", "typing_stop", "new_message"}

(* ---- events ---- *)
(* The payload's timestamp makes the events of different calls distinct.   *)
(* `ws` and `frame` stand for it: the connection whose registration or     *)
(* whose session the event is about and, for the events of an inbound      *)
(* frame, the number of the frame (0 for the presence events).             *)
Event(type, user, ws, frame) ==
    [type |-> type, user |-> user, ws |-> ws, frame |-> frame]
NoEvent == Event("none", "none", NoConn, 0)

(* ---- coroutine frames ---- *)
Frame(fn, pc, ws, room, user, msg, excl) ==
    [fn |-> fn, pc |-> pc, ws |-> ws, room |-> room, user |-> user,
     msg |-> msg, exclude |-> excl,
     pos |-> 0, used |-> 0, live |-> FALSE, cur |-> NoConn,
     dead |-> << >>, di |-> 0,
     snap |-> {}, tried |-> {}]    \* history: the room's set when the
                                   \* iteration began, the connections a
                                   \* send was started to

BroadcastFrame(room, msg, excl) ==
    Frame("broadcast", "start", NoConn, room, "none", msg, excl)

Depth(t) == Len(stack[t])
Top(t) == stack[t][Depth(t)]
WithTop(t, f) == [stack EXCEPT ![t] = [@ EXCEPT ![Len(@)] = f]]
Popped(t) == [stack EXCEPT ![t] = SubSeq(@, 1, Len(@) - 1)]
\* the caller moves to pc `ret` and the callee's frame goes on top; a
\* caller that is in a loop over a list moves to the list's next element
Called(t, ret, f) ==
    [stack EXCEPT ![t] =
        Append([@ EXCEPT ![Len(@)].pc = ret,
                         ![Len(@)].di = IF ret = "cleanup" THEN @ + 1 ELSE @],
               f)]

(* ---- dictionaries ---- *)
EmptyDict == [k \in {} |-> {}]
Put(d, k, v) == [x \in (DOMAIN d) \cup {k} |-> IF x = k THEN v ELSE d[x]]
Del(d, k) == [x \in (DOMAIN d) \ {k} |-> d[x]]
Count(d, k) == IF k \in DOMAIN d THEN d[k] ELSE 0
Range(q) == {q[i] : i \in 1..Len(q)}

Min(S) == CHOOSE x \in S : \A y \in S : x <= y

\* frames of a task that are inside an `async with self._lock` block
LockPcs == {"locked", "unlock", "inner"}
InLock(t) == \E i \in 1..Depth(t) : stack[t][i].pc \in LockPcs
Holders == {t \in Tasks : InLock(t)}

\* Is the top frame of the running task t a frame of fn at pc?
At(t, fn, pc) ==
    /\ running = t
    /\ Depth(t) > 0
    /\ Top(t).fn = fn
    /\ Top(t).pc = pc

Init ==
    /\ group_connections = EmptyDict
    /\ connection_info = EmptyDict
    /\ typing_users = EmptyDict
    /\ locked = FALSE
    /\ waiters = << >>
    /\ hpc = [t \in Tasks |-> "new"]
    /\ hroom = [t \in Tasks |-> "none"]
    /\ huser = [t \in Tasks |-> "none"]
    /\ htoken = [t \in Tasks |-> "valid"]
    /\ group_members = Rooms \X Users
    /\ hframe = [t \in Tasks |-> 0]
    /\ nframes = 0
    /\ nfails = 0
    /\ stack = [t \in Tasks |-> << >>]
    /\ running = NoTask
    /\ received = [c \in Conns |-> EmptyDict]
    /\ heard = [c \in Conns |-> << >>]
    /\ peers = [c \in Conns |-> {}]
    /\ left = [c \in Conns |-> {}]
    /\ removed = {}
    /\ absorbed = [c \in Conns |-> 0]
    /\ dropped = {}

(***************************************************************************)
(* asyncio.Lock                                                            *)
(***************************************************************************)
\* acquire() takes the lock without suspending when it is free and nobody
\* queues for it
CanAcquireAlways == TRUE
CanAcquire == ~locked /\ waiters = << >>

\* `async with self._lock` of connect, disconnect, set_typing, clear_typing
Acquire(t) ==
    /\ running = t
    /\ Depth(t) > 0
    /\ Top(t).pc = "acquire"
    /\ IF CanAcquire
       THEN /\ locked' = TRUE
            /\ stack' = WithTop(t, [Top(t) EXCEPT !.pc = "locked"])
            /\ UNCHANGED <<waiters, running>>
       ELSE /\ waiters' = Append(waiters, t)
            /\ stack' = WithTop(t, [Top(t) EXCEPT !.pc = "waiting"])
            /\ running' = NoTask
            /\ UNCHANGED locked
    /\ UNCHANGED <<registry, session, group_members, nfails, received, heard, history>>

\* release() wakes the oldest waiter, which takes the lock when it resumes
Wake(t) ==
    /\ running = NoTask
    /\ Depth(t) > 0
    /\ Top(t).pc = "waiting"
    /\ ~locked
    /\ waiters # << >>
    /\ Head(waiters) = t
    /\ locked' = TRUE
    /\ waiters' = Tail(waiters)
    /\ stack' = WithTop(t, [Top(t) EXCEPT !.pc = "locked"])
    /\ running' = t
    /\ UNCHANGED <<registry, session, group_members, nfails, received, heard, history>>

(***************************************************************************)
(* ConnectionManager.connect                                               *)
(***************************************************************************)
RegisteredAll(gc, ws, room) ==
    [r \in (DOMAIN gc) \cup {room} |->
        IF r \in DOMAIN gc THEN gc[r] \cup {ws} ELSE {ws}]
Registered(gc, ws, room) ==
    IF room \in DOMAIN gc
    THEN Put(gc, room, gc[room] \cup {ws})
    ELSE Put(gc, room, {ws})

ConnectRegister(t) ==
    /\ At(t, "connect", "locked")
    /\ LET f == Top(t) IN
       /\ group_connections' = Registered(group_connections, f.ws, f.room)
       /\ connection_info' = Put(connection_info, f.ws, <<f.user, f.room>>)
       /\ peers' = [peers EXCEPT ![f.ws] = group_connections'[f.room] \ {f.ws}]
       /\ stack' = WithTop(t, [f EXCEPT !.pc = "unlock"])
    /\ UNCHANGED <<typing_users, lock, session, group_members, nfails, running, received, heard,
                   left, removed, absorbed, dropped>>

\* end of the `async with` block of connect, set_typing and clear_typing,
\* then the call of broadcast_to_group that follows it
ReleaseAndBroadcast(t) ==
    /\ running = t
    /\ Depth(t) > 0
    /\ Top(t).fn \in {"connect", "set_typing", "clear_typing"}
    /\ Top(t).pc = "unlock"
    /\ locked' = FALSE
    /\ stack' = Called(t, "ret",
                       BroadcastFrame(Top(t).room, Top(t).msg, Top(t).exclude))
    /\ UNCHANGED <<registry, waiters, session, group_members, nfails, running, received, heard,
                   history>>

\* a coroutine whose last call has returned returns to its own caller
Return(t) ==
    /\ running = t
    /\ Depth(t) > 0
    /\ Top(t).pc = "ret"
    /\ stack' = Popped(t)
    /\ UNCHANGED <<registry, lock, session, group_members, nfails, running, received, heard, history>>

(***************************************************************************)
(* ConnectionManager.set_typing / clear_typing                             *)
(***************************************************************************)
SetTypingMark(t) ==
    /\ At(t, "set_typing", "locked")
    /\ LET f == Top(t) IN
       /\ typing_users' =
             IF f.room \in DOMAIN typing_users
             THEN Put(typing_users, f.room, typing_users[f.room] \cup {f.user})
             ELSE Put(typing_users, f.room, {f.user})
       /\ stack' = WithTop(t, [f EXCEPT !.pc = "unlock"])
    /\ UNCHANGED <<group_connections, connection_info, lock, session, group_members, nfails,
                   running, received, heard, history>>

\* lines 154-155
ClearedNot(ty, user, room) == ty
Cleared(ty, user, room) ==
    IF room \in DOMAIN ty
    THEN Put(ty, room, ty[room] \ {user})
    ELSE ty

ClearTypingMark(t) ==
    /\ At(t, "clear_typing", "locked")
    /\ LET f == Top(t) IN
       /\ typing_users' = Cleared(typing_users, f.user, f.room)
       /\ stack' = WithTop(t, [f EXCEPT !.pc = "unlock"])
    /\ UNCHANGED <<group_connections, connection_info, lock, session, group_members, nfails,
                   running, received, heard, history>>

(***************************************************************************)
(* ConnectionManager.disconnect                                            *)
(***************************************************************************)
\* line 46: connection_info.pop(websocket, None)
ForgottenNot(info, ws) == info
ForgottenAll(info, ws) == EmptyDict
Forgotten(info, ws) == Del(info, ws)

\* lines 51-55: discard the connection, delete the room's key when empty
DiscardedNot(gc, ws, room) == gc
DiscardedKept(gc, ws, room) ==
    IF room \in DOMAIN gc THEN Put(gc, room, gc[room] \ {ws}) ELSE gc
Discarded(gc, ws, room) ==
    IF room \in DOMAIN gc
    THEN IF gc[room] \ {ws} = {}
         THEN Del(gc, room)
         ELSE Put(gc, room, gc[room] \ {ws})
    ELSE gc

\* lines 58-59
UntypedAll(ty, user, room) ==
    IF room \in DOMAIN ty THEN Put(ty, room, {}) ELSE ty
Untyped(ty, user, room) ==
    IF room \in DOMAIN ty
    THEN Put(ty, room, ty[room] \ {user})
    ELSE ty

\* A set iterator keeps a reference to the set object it was made from.
\* When disconnect deletes a room's key, that object stays empty for ever
\* and a later connect makes a new one: the iterators over it are no
\* longer over group_connections[room].
Detached(stk, gcOld, gcNew) ==
    [t \in Tasks |->
        [i \in 1..Len(stk[t]) |->
            IF /\ stk[t][i].fn \in {"broadcast", "send_to_user"}
               /\ stk[t][i].room \in DOMAIN gcOld
               /\ stk[t][i].room \notin DOMAIN gcNew
            THEN [stk[t][i] EXCEPT !.live = FALSE]
            ELSE stk[t][i]]]

\* lines 46-68 up to the call of broadcast_to_group, which is made with
\* the lock held
DisconnectPop(t) ==
    /\ At(t, "disconnect", "locked")
    /\ LET f == Top(t) IN
       IF f.ws \in DOMAIN connection_info
       THEN LET user == connection_info[f.ws][1]
                room == connection_info[f.ws][2]
                gc == Discarded(group_connections, f.ws, room)
            IN /\ connection_info' = Forgotten(connection_info, f.ws)
               /\ removed' = removed \cup {f.ws}
               /\ group_connections' = gc
               /\ typing_users' = Untyped(typing_users, user, room)
               /\ left' = [left EXCEPT ![f.ws] =
                             IF room \in DOMAIN gc THEN gc[room] ELSE {}]
               /\ stack' = Detached(
                     Called(t, "inner",
                            BroadcastFrame(room,
                                           Event("user_offline", user, f.ws, 0),
                                           NoConn)),
                     group_connections, gc)
       ELSE /\ stack' = WithTop(t, [f EXCEPT !.pc = "unlock"])
            /\ UNCHANGED <<registry, left, removed>>
    /\ UNCHANGED <<lock, session, group_members, nfails, running, received, heard, peers,
                   absorbed, dropped>>

\* end of the `async with` block of disconnect, and its return
DisconnectRelease(t) ==
    /\ \/ At(t, "disconnect", "inner")
       \/ At(t, "disconnect", "unlock")
    /\ locked' = FALSE
    /\ stack' = Popped(t)
    /\ UNCHANGED <<registry, waiters, session, group_members, nfails, running, received, heard,
                   history>>

(***************************************************************************)
(* ConnectionManager.broadcast_to_group                                    *)
(***************************************************************************)
\* lines 77-83: the early return, or iter() over the room's live set
BroadcastStart(t) ==
    /\ At(t, "broadcast", "start")
    /\ LET f == Top(t) IN
       IF f.room \notin DOMAIN group_connections
       THEN stack' = Popped(t)
       ELSE stack' = WithTop(t, [f EXCEPT !.pc = "next", !.live = TRUE,
                        !.used = Cardinality(group_connections[f.room])])
    /\ UNCHANGED <<registry, lock, session, group_members, nfails, running, received, heard, history>>

\* number of elements of the set object the frame's iterator is over
IterSize(f) ==
    IF f.live /\ f.room \in DOMAIN group_connections
    THEN Cardinality(group_connections[f.room])
    ELSE 0

\* elements the iterator has not passed yet; a set is walked in the order
\* of its hash table, which the connection number stands for
IterRest(f) ==
    IF f.live /\ f.room \in DOMAIN group_connections
    THEN {c \in group_connections[f.room] : c > f.pos}
    ELSE {}

\* the set iterator raises when the set's size is not the one it started with
IterChanged(f) == IterSize(f) # f.used

\* line 83-88: next() of the iterator, `continue` for the excluded
\* connection, and the start of send_text, which suspends the task
BroadcastNext(t) ==
    /\ At(t, "broadcast", "next")
    /\ LET f == Top(t) IN
       /\ ~IterChanged(f)
       /\ IF IterRest(f) = {}
          THEN /\ stack' = WithTop(t, [f EXCEPT !.pc = "cleanup"])
               /\ UNCHANGED running
          ELSE LET c == Min(IterRest(f)) IN
               IF c = f.exclude
               THEN /\ stack' = WithTop(t, [f EXCEPT !.pos = c])
                    /\ UNCHANGED running
               ELSE /\ stack' = WithTop(t, [f EXCEPT !.pos = c, !.cur = c,
                                                     !.pc = "sending"])
                    /\ running' = NoTask
    /\ UNCHANGED <<registry, lock, session, group_members, nfails, received, heard, history>>

Sending(t) ==
    /\ running = NoTask
    /\ Depth(t) > 0
    /\ Top(t).fn = "broadcast"
    /\ Top(t).pc = "sending"

\* send_text returns: the transport has taken the event
SendOk(t) ==
    /\ Sending(t)
    /\ LET f == Top(t) IN
       /\ received' = [received EXCEPT
                         ![f.cur] = Put(@, f.msg, Count(@, f.msg) + 1)]
       /\ heard' = IF f.msg.type \in ChatTypes
                   THEN [heard EXCEPT ![f.cur] = Append(@, f.msg)]
                   ELSE heard
       /\ stack' = WithTop(t, [f EXCEPT !.pc = "next", !.cur = NoConn])
    /\ running' = t
    /\ UNCHANGED <<registry, lock, session, group_members, nfails, history>>

\* send_text raises: lines 89-91
SendFail(t) ==
    /\ Sending(t)
    /\ nfails < MaxFails
    /\ nfails' = nfails + 1
    /\ LET f == Top(t) IN
       stack' = WithTop(t, [f EXCEPT !.pc = "next", !.cur = NoConn,
                                     !.dead = Append(@, f.cur)])
    /\ running' = t
    /\ UNCHANGED <<registry, lock, session, group_members, received, heard, history>>

\* lines 94-95: one disconnect per dead connection, then the return
BroadcastCleanup(t) ==
    /\ At(t, "broadcast", "cleanup")
    /\ LET f == Top(t) IN
       IF f.di < Len(f.dead)
       THEN /\ stack' = Called(t, "cleanup",
                   Frame("disconnect", "acquire", f.dead[f.di + 1], "none",
                         "none", NoEvent, NoConn))
            /\ UNCHANGED absorbed
       ELSE /\ stack' = Popped(t)
            /\ absorbed' = [c \in Conns |->
                  IF c \in Range(f.dead) THEN absorbed[c] + 1 ELSE absorbed[c]]
    /\ UNCHANGED <<registry, lock, session, group_members, nfails, running, received, heard,
                   peers, left, removed, dropped>>

\* The RuntimeError of the set iterator is caught by no coroutine of the
\* manager: every frame of the task is left, an `async with` block on the
\* way releases the lock, and the session handler gets the exception.
\*   line 98 (connect) is outside the handler's try: the handler ends;
\*   lines 105-156: `except Exception` logs it and the loop goes on;
\*   line 163 (finally): the handler ends.
\*   routes.py:313, 515, 535 and stream_routes.py:73: `except Exception`
\*   logs it and the request is answered.
HttpPcs == {"http_typing", "http_clear", "http_send", "http_share",
            "http_remove", "mention"}
Caught(pc) ==
    IF pc \in {"dispatch", "msg_bcast"} THEN "receive"
    ELSE IF pc \in HttpPcs THEN "http_idle"
    ELSE "aborted"

BroadcastIterError(t) ==
    /\ At(t, "broadcast", "next")
    /\ IterChanged(Top(t))
    /\ dropped' = dropped \cup Range(Top(t).dead)
    /\ stack' = [stack EXCEPT ![t] = << >>]
    /\ locked' = IF InLock(t) THEN FALSE ELSE locked
    /\ hpc' = [hpc EXCEPT ![t] = Caught(@)]
    /\ running' = NoTask
    /\ UNCHANGED <<registry, waiters, hroom, huser, htoken, group_members, hframe, nframes, nfails, received,
                   heard, peers, left, removed, absorbed>>

(***************************************************************************)
(* group_chat_websocket: the session handler of one connection             *)
(***************************************************************************)
Idle(t) == running = NoTask /\ Depth(t) = 0
Back(t) == running = t /\ Depth(t) = 0

\* The path parameter and the token's subject are inputs.  Names are
\* interchangeable, so a session takes a name some session already has or
\* the first name nobody has yet.
Fresh(names, used) ==
    LET taken == {used[t] : t \in Tasks} \cap names
        free == names \ taken
    IN taken \cup (IF free = {} THEN {} ELSE {CHOOSE n \in free : \A m \in free : Ord(n) <= Ord(m)})

\* lines 75-98: the store has the user as a member of the room (nothing
\* suspends the handler from that check to the call of connect)
HandlerConnect(t) ==
    /\ Idle(t)
    /\ hpc[t] = "new"
    /\ \E r \in Fresh(Rooms, hroom), u \in Fresh(Users, huser) :
         /\ <<r, u>> \in group_members
         /\ hroom' = [hroom EXCEPT ![t] = r]
         /\ huser' = [huser EXCEPT ![t] = u]
         /\ stack' = [stack EXCEPT ![t] =
               <<Frame("connect", "acquire", t, r, u,
                       Event("user_online", u, t, 0), t)>>]
    /\ hpc' = [hpc EXCEPT ![t] = "connecting"]
    /\ running' = t
    /\ UNCHANGED <<registry, lock, htoken, group_members, hframe, nframes, nfails, received, heard, history>>

\* line 103: connect has returned, or a frame has been dealt with, and the
\* handler waits in receive_text
HandlerReceive(t) ==
    /\ Back(t)
    /\ hpc[t] \in {"connecting", "dispatch"}
    /\ hpc' = [hpc EXCEPT ![t] = "receive"]
    /\ running' = NoTask
    /\ UNCHANGED <<registry, lock, hroom, huser, htoken, group_members, hframe, nframes, nfails, stack,
                   received, heard, history>>

\* the inbound frames the model deals with: SoloFrames of them while one
\* session only has connected, MaxFrames of them otherwise; MaxRequests
\* of them, the requests included, when a task serves requests
Alone == Cardinality({t \in Tasks : hpc[t] # "new"}) <= 1
Serving == \E t \in Tasks : hpc[t] \in HttpPcs \cup {"http_idle"}
FrameBudget ==
    IF Serving THEN MaxRequests ELSE IF Alone THEN SoloFrames ELSE MaxFrames

Dispatch(t, next, f) ==
    /\ Idle(t)
    /\ hpc[t] = "receive"
    /\ nframes < FrameBudget
    /\ nframes' = nframes + 1
    /\ hframe' = [hframe EXCEPT ![t] = nframes + 1]
    /\ hpc' = [hpc EXCEPT ![t] = next]
    /\ stack' = [stack EXCEPT ![t] = f]
    /\ UNCHANGED <<registry, lock, hroom, huser, htoken, group_members, nfails, received, heard, history>>

\* set_typing gives its broadcast no connection to exclude (lines 144-149)
SetTypingFrameOthers(t, n) ==
    Frame("set_typing", "acquire", t, hroom[t], huser[t],
          Event("typing_start", huser[t], t, n), t)
SetTypingFrame(t, n) ==
    Frame("set_typing", "acquire", t, hroom[t], huser[t],
          Event("typing_start", huser[t], t, n), NoConn)

\* lines 128-129
ReceiveTyping(t) ==
    /\ Dispatch(t, "dispatch", <<SetTypingFrame(t, nframes + 1)>>)
    /\ running' = t

ClearTypingFrame(t, n) ==
    Frame("clear_typing", "acquire", t, hroom[t], huser[t],
          Event("typing_stop", huser[t], t, n), NoConn)

\* lines 131-132
ReceiveStopTyping(t) ==
    /\ Dispatch(t, "dispatch", <<ClearTypingFrame(t, nframes + 1)>>)
    /\ running' = t

\* lines 109-121: a message with content.  Database.send_message has no
\* await of its own (database.py:421-466): the handler keeps the loop
\* until the store has answered
ReceiveMessage(t) ==
    /\ Dispatch(t, "db_send", << >>)
    /\ running' = t

\* which connection a broadcast of a stored message leaves out
ExcludedOwn(ws) == ws
Excluded(ws) == NoConn

\* manager.broadcast_message (lines 112-118) for a message the store took;
\* no call when send_message returned None (a 403 is raised instead)
Stored(r, u, ws, n, took) ==
    IF took
    THEN <<BroadcastFrame(r, Event("new_message", u, ws, n), Excluded(ws))>>
    ELSE << >>

\* lines 123-124: the store has answered; a stored message is broadcast
MessageStored(t) ==
    /\ Back(t)
    /\ hpc[t] = "db_send"
    /\ <<hroom[t], huser[t]>> \in group_members
    /\ hpc' = [hpc EXCEPT ![t] = "msg_bcast"]
    /\ stack' = [stack EXCEPT ![t] =
          Stored(hroom[t], huser[t], t, hframe[t], TRUE)]
    /\ UNCHANGED <<registry, lock, hroom, huser, htoken, group_members, hframe, nframes, nfails,
                   running, received, heard, history>>

\* line 123: send_message returned None, or raised and line 155 caught it;
\* the handler is back in receive_text
MessageRejected(t) ==
    /\ Back(t)
    /\ hpc[t] = "db_send"
    /\ hpc' = [hpc EXCEPT ![t] = "receive"]
    /\ running' = NoTask
    /\ UNCHANGED <<registry, lock, hroom, huser, htoken, group_members, hframe, nframes, nfails, stack,
                   received, heard, history>>

\* lines 125-126
MessageClearTyping(t) ==
    /\ Back(t)
    /\ hpc[t] = "msg_bcast"
    /\ hpc' = [hpc EXCEPT ![t] = "dispatch"]
    /\ stack' = [stack EXCEPT ![t] = <<ClearTypingFrame(t, hframe[t])>>]
    /\ UNCHANGED <<registry, lock, hroom, huser, htoken, group_members, hframe, nframes, nfails, running,
                   received, heard, history>>

\* lines 158-163: receive_text raises (the client closed, or an error) and
\* the finally block calls disconnect
ReceiveDisconnect(t) ==
    /\ Idle(t)
    /\ hpc[t] = "receive"
    /\ hpc' = [hpc EXCEPT ![t] = "closing"]
    /\ stack' = [stack EXCEPT ![t] =
          <<Frame("disconnect", "acquire", t, "none", "none", NoEvent,
                  NoConn)>>]
    /\ running' = t
    /\ UNCHANGED <<registry, lock, hroom, huser, htoken, group_members, hframe, nframes, nfails, received, heard,
                   history>>

\* the handler returns
HandlerClosed(t) ==
    /\ Back(t)
    /\ hpc[t] = "closing"
    /\ hpc' = [hpc EXCEPT ![t] = "closed"]
    /\ running' = NoTask
    /\ UNCHANGED <<registry, lock, hroom, huser, htoken, group_members, hframe, nframes, nfails, stack,
                   received, heard, history>>

\* what a session does without inbound frames
Core(t) ==
    \/ Acquire(t)
    \/ Wake(t)
    \/ ConnectRegister(t)
    \/ ReleaseAndBroadcast(t)
    \/ Return(t)
    \/ DisconnectPop(t)
    \/ DisconnectRelease(t)
    \/ BroadcastStart(t)
    \/ BroadcastNext(t)
    \/ BroadcastIterError(t)
    \/ SendOk(t)
    \/ SendFail(t)
    \/ BroadcastCleanup(t)
    \/ HandlerConnect(t)
    \/ HandlerReceive(t)
    \/ ReceiveDisconnect(t)
    \/ HandlerClosed(t)

\* the dispatch of inbound frames
Chat(t) ==
    \/ SetTypingMark(t)
    \/ ClearTypingMark(t)
    \/ ReceiveTyping(t)
    \/ ReceiveStopTyping(t)
    \/ ReceiveMessage(t)
    \/ MessageStored(t)
    \/ MessageRejected(t)
    \/ MessageClearTyping(t)

\* NumConns sessions that connect, lose sends and disconnect
Next == \E t \in Tasks : Core(t)

Spec == Init /\ [][Next]_vars

\* ChatSessions sessions that also dispatch up to MaxFrames inbound frames
NextChat == \E t \in 1..ChatSessions : Core(t) \/ Chat(t)

SpecChat == Init /\ [][NextChat]_vars

(***************************************************************************)
(* group_chat_websocket, lines 105-156: the frames that have no effect     *)
(***************************************************************************)
\* lines 109-114: a message frame whose trimmed content is empty; no
\* branch does anything
ReceiveEmptyMessage(t) ==
    /\ Dispatch(t, "empty", << >>)
    /\ running' = t

\* lines 106-107 and 153-156: json.loads raises, or the payload is no
\* object and message.get raises, and an except clause logs it; or the
\* type is missing or is none of those of lines 109-150
ReceiveMalformed(t) ==
    /\ Dispatch(t, "malformed", << >>)
    /\ running' = t

\* line 101: the loop goes round and the handler is back in receive_text
FrameBroadcast(t) ==
    /\ Back(t)
    /\ hpc[t] \in {"empty", "malformed"}
    /\ hpc' = [hpc EXCEPT ![t] = "msg_bcast"]
    /\ stack' = [stack EXCEPT ![t] =
          <<BroadcastFrame(hroom[t], Event("new_message", huser[t], t, hframe[t]),
                           NoConn)>>]
    /\ UNCHANGED <<registry, lock, hroom, huser, htoken, group_members, hframe, nframes, nfails,
                   running, received, heard, history>>
FrameFatal(t) ==
    /\ Back(t)
    /\ hpc[t] \in {"empty", "malformed"}
    /\ hpc' = [hpc EXCEPT ![t] = "closing"]
    /\ stack' = [stack EXCEPT ![t] =
          <<Frame("disconnect", "acquire", t, "none", "none", NoEvent,
                  NoConn)>>]
    /\ UNCHANGED <<registry, lock, hroom, huser, htoken, group_members, hframe, nframes, nfails,
                   running, received, heard, history>>
FrameIgnored(t) ==
    /\ Back(t)
    /\ hpc[t] \in {"empty", "malformed"}
    /\ hpc' = [hpc EXCEPT ![t] = "receive"]
    /\ running' = NoTask
    /\ UNCHANGED <<registry, lock, hroom, huser, htoken, group_members, hframe, nframes, nfails,
                   stack, received, heard, history>>

Inbound(t) ==
    \/ ReceiveEmptyMessage(t)
    \/ ReceiveMalformed(t)
    \/ FrameIgnored(t)

\* ChatSessions sessions and every kind of inbound frame
NextInbound == \E t \in 1..ChatSessions : Core(t) \/ Chat(t) \/ Inbound(t)

SpecInbound == Init /\ [][NextInbound]_vars

(***************************************************************************)
(* ConnectionManager.send_to_user                                          *)
(***************************************************************************)
\* lines 99-104: the early return, or iter() over the room's live set
SendToUserStart(t) ==
    /\ At(t, "send_to_user", "start")
    /\ LET f == Top(t) IN
       IF f.room \notin DOMAIN group_connections
       THEN stack' = Popped(t)
       ELSE stack' = WithTop(t, [f EXCEPT !.pc = "next", !.live = TRUE,
                        !.used = Cardinality(group_connections[f.room]),
                        !.snap = group_connections[f.room]])
    /\ UNCHANGED <<registry, lock, session, group_members, nfails, running,
                   received, heard, history>>

\* lines 105-106: is the connection one of the user's?
Owned(c, user) ==
    /\ c \in DOMAIN connection_info
    /\ connection_info[c][1] = user

\* lines 104-108: next() of the iterator, the owner test, and the start of
\* send_text, which suspends the task
SendToUserNext(t) ==
    /\ At(t, "send_to_user", "next")
    /\ LET f == Top(t) IN
       /\ ~IterChanged(f)
       /\ IF IterRest(f) = {}
          THEN /\ stack' = Popped(t)
               /\ UNCHANGED running
          ELSE LET c == Min(IterRest(f)) IN
               IF Owned(c, f.user)
               THEN /\ stack' = WithTop(t, [f EXCEPT !.pos = c, !.cur = c,
                                                     !.pc = "sending",
                                                     !.tried = @ \cup {c}])
                    /\ running' = NoTask
               ELSE /\ stack' = WithTop(t, [f EXCEPT !.pos = c])
                    /\ UNCHANGED running
    /\ UNCHANGED <<registry, lock, session, group_members, nfails, received,
                   heard, history>>

\* the set iterator raises; send_to_user catches the errors of send_text
\* only, so its caller gets the exception
SendToUserIterError(t) ==
    /\ At(t, "send_to_user", "next")
    /\ IterChanged(Top(t))
    /\ stack' = [stack EXCEPT ![t] = << >>]
    /\ hpc' = [hpc EXCEPT ![t] = Caught(@)]
    /\ running' = NoTask
    /\ UNCHANGED <<registry, lock, hroom, huser, htoken, group_members, hframe,
                   nframes, nfails, received, heard, history>>

SendingToUser(t) ==
    /\ running = NoTask
    /\ Depth(t) > 0
    /\ Top(t).fn = "send_to_user"
    /\ Top(t).pc = "sending"

\* line 108: send_text returns
SendToUserOk(t) ==
    /\ SendingToUser(t)
    /\ LET f == Top(t) IN
       /\ received' = [received EXCEPT
                         ![f.cur] = Put(@, f.msg, Count(@, f.msg) + 1)]
       /\ stack' = WithTop(t, [f EXCEPT !.pc = "next", !.cur = NoConn])
    /\ running' = t
    /\ UNCHANGED <<registry, lock, session, group_members, nfails, heard,
                   history>>

\* lines 109-110: send_text raises and the error is logged
SendToUserFail(t) ==
    /\ SendingToUser(t)
    /\ nfails < MaxFails
    /\ nfails' = nfails + 1
    /\ stack' = WithTop(t, [Top(t) EXCEPT !.pc = "next", !.cur = NoConn])
    /\ running' = t
    /\ UNCHANGED <<registry, lock, session, group_members, received, heard,
                   history>>

(***************************************************************************)
(* The HTTP endpoints that call the manager (routes.py, stream_routes.py), *)
(* the endpoint that deletes a membership, and broadcast_mention.  One     *)
(* task serves the requests one after the other, beside the sessions.      *)
(***************************************************************************)
HttpSessions == 2   \* sessions that run beside the requests
Requester == NumConns   \* the task of the requests; it has no session

InitHttp ==
    /\ group_connections = EmptyDict
    /\ connection_info = EmptyDict
    /\ typing_users = EmptyDict
    /\ locked = FALSE
    /\ waiters = << >>
    /\ hpc = [t \in Tasks |-> IF t = Requester THEN "http_idle" ELSE "new"]
    /\ hroom = [t \in Tasks |-> "none"]
    /\ huser = [t \in Tasks |-> "none"]
    /\ htoken = [t \in Tasks |-> "valid"]
    /\ group_members = Rooms \X Users
    /\ hframe = [t \in Tasks |-> 0]
    /\ nframes = 0
    /\ nfails = 0
    /\ stack = [t \in Tasks |-> << >>]
    /\ running = NoTask
    /\ received = [c \in Conns |-> EmptyDict]
    /\ heard = [c \in Conns |-> << >>]
    /\ peers = [c \in Conns |-> {}]
    /\ left = [c \in Conns |-> {}]
    /\ removed = {}
    /\ absorbed = [c \in Conns |-> 0]
    /\ dropped = {}

\* a request for room r by the user u of its token: the endpoint runs up
\* to its first call of the manager (the store does not suspend it)
Request(h, r, u, pc, f) ==
    /\ Idle(h)
    /\ hpc[h] = "http_idle"
    /\ nframes < FrameBudget
    /\ nframes' = nframes + 1
    /\ hframe' = [hframe EXCEPT ![h] = nframes + 1]
    /\ hroom' = [hroom EXCEPT ![h] = r]
    /\ huser' = [huser EXCEPT ![h] = u]
    /\ hpc' = [hpc EXCEPT ![h] = pc]
    /\ stack' = [stack EXCEPT ![h] = f]
    /\ running' = h
    /\ UNCHANGED <<registry, lock, htoken, nfails, received, heard, history>>

\* routes.py:499-517: POST /{group_id}/typing
HttpSetTyping(h) ==
    \E r \in Rooms, u \in Users :
       /\ Request(h, r, u, "http_typing",
             <<Frame("set_typing", "acquire", NoConn, r, u,
                     Event("typing_start", u, NoConn, nframes + 1), NoConn)>>)
       /\ UNCHANGED group_members

\* routes.py:520-537: DELETE /{group_id}/typing
HttpClearTyping(h) ==
    \E r \in Rooms, u \in Users :
       /\ Request(h, r, u, "http_clear",
             <<Frame("clear_typing", "acquire", NoConn, r, u,
                     Event("typing_stop", u, NoConn, nframes + 1), NoConn)>>)
       /\ UNCHANGED group_members

\* routes.py:285-316: POST /{group_id}/messages
HttpSendMessage(h) ==
    \E r \in Rooms, u \in Users, took \in BOOLEAN :
       /\ took => <<r, u>> \in group_members
       /\ Request(h, r, u, "http_send", Stored(r, u, NoConn, nframes + 1, took))
       /\ UNCHANGED group_members

\* stream_routes.py:16-75: POST /{group_id}/stream-share
HttpShareStream(h) ==
    \E r \in Rooms, u \in Users, took \in BOOLEAN :
       /\ took => <<r, u>> \in group_members
       /\ Request(h, r, u, "http_share", Stored(r, u, NoConn, nframes + 1, took))
       /\ UNCHANGED group_members

\* database.py:356-378: a member removes itself, or an admin removes a
\* member; the row is deleted
RemovedRow(gm, r, target) == gm \ {<<r, target>>}

\* routes.py:233-253: DELETE /{group_id}/members/{target_user_id}; the
\* endpoint calls the store and nothing else
HttpRemoveMember(h) ==
    \E r \in Rooms, u \in Users, target \in Users, admin \in BOOLEAN :
       /\ Request(h, r, u, "http_remove", << >>)
       /\ group_members' =
             IF <<r, u>> \in group_members /\ (u = target \/ admin)
             THEN RemovedRow(group_members, r, target)
             ELSE group_members

\* websocket_manager.py:243-253: broadcast_mention
Mention(h) ==
    \E r \in Rooms, u \in Users :
       /\ Request(h, r, u, "mention",
             <<Frame("send_to_user", "start", NoConn, r, u,
                     Event("mention", u, NoConn, nframes + 1), NoConn)>>)
       /\ UNCHANGED group_members

\* the endpoint returns its response
HttpRespond(h) ==
    /\ Back(h)
    /\ hpc[h] \in HttpPcs
    /\ hpc' = [hpc EXCEPT ![h] = "http_idle"]
    /\ running' = NoTask
    /\ UNCHANGED <<registry, lock, hroom, huser, htoken, group_members, hframe,
                   nframes, nfails, stack, received, heard, history>>

\* the coroutines of the manager a request is inside
Manager(t) ==
    \/ Acquire(t)
    \/ Wake(t)
    \/ ReleaseAndBroadcast(t)
    \/ Return(t)
    \/ SetTypingMark(t)
    \/ ClearTypingMark(t)
    \/ DisconnectPop(t)
    \/ DisconnectRelease(t)
    \/ BroadcastStart(t)
    \/ BroadcastNext(t)
    \/ BroadcastIterError(t)
    \/ SendOk(t)
    \/ SendFail(t)
    \/ BroadcastCleanup(t)
    \/ SendToUserStart(t)
    \/ SendToUserNext(t)
    \/ SendToUserIterError(t)
    \/ SendToUserOk(t)
    \/ SendToUserFail(t)

Http(h) ==
    \/ HttpSetTyping(h)
    \/ HttpClearTyping(h)
    \/ HttpSendMessage(h)
    \/ HttpShareStream(h)
    \/ HttpRemoveMember(h)
    \/ Mention(h)
    \/ HttpRespond(h)

\* the message frames of a session
Message(t) ==
    \/ ReceiveMessage(t)
    \/ MessageStored(t)
    \/ MessageRejected(t)
    \/ MessageClearTyping(t)
    \/ ClearTypingMark(t)

NextHttp ==
    \/ \E t \in 1..HttpSessions : Core(t) \/ Message(t)
    \/ Manager(Requester)
    \/ Http(Requester)

SpecHttp == InitHttp /\ [][NextHttp]_vars

(***************************************************************************)
(* group_chat_websocket before line 97: accept, the token, the membership  *)
(***************************************************************************)
AuthSessions == 3   \* sessions that go through the checks before connect

\* the token query parameter: absent, one that decode_token raises on, one
\* whose payload has no "sub", one that yields a user id
Tokens == {"missing", "garbled", "nosub", "valid"}

\* websocket.close(code, reason) of lines 59, 68, 72 and 79
CloseReasons == {"4001 Missing token", "4001 Invalid token",
                 "4001 Authentication failed",
                 "4003 Not a member of this group"}

\* lines 57-73: where the token check leaves the handler
VerdictLax(token) == "authenticated"
Verdict(token) ==
    CASE token = "missing" -> "4001 Missing token"
      [] token = "garbled" -> "4001 Authentication failed"
      [] token = "nosub" -> "4001 Invalid token"
      [] OTHER -> "authenticated"

\* the state when the handler of each session is called
InitAuth ==
    /\ group_connections = EmptyDict
    /\ connection_info = EmptyDict
    /\ typing_users = EmptyDict
    /\ locked = FALSE
    /\ waiters = << >>
    /\ hpc = [t \in Tasks |-> "opened"]
    /\ hroom = [t \in Tasks |-> "none"]
    /\ huser = [t \in Tasks |-> "none"]
    /\ htoken \in [Tasks -> Tokens]
    /\ \A t \in Tasks : t > AuthSessions => htoken[t] = "valid"
    /\ group_members = Rooms \X Users
    /\ hframe = [t \in Tasks |-> 0]
    /\ nframes = 0
    /\ nfails = 0
    /\ stack = [t \in Tasks |-> << >>]
    /\ running = NoTask
    /\ received = [c \in Conns |-> EmptyDict]
    /\ heard = [c \in Conns |-> << >>]
    /\ peers = [c \in Conns |-> {}]
    /\ left = [c \in Conns |-> {}]
    /\ removed = {}
    /\ absorbed = [c \in Conns |-> 0]
    /\ dropped = {}

\* line 54: the handler waits in websocket.accept()
HandlerAccept(t) ==
    /\ Idle(t)
    /\ hpc[t] = "opened"
    /\ hpc' = [hpc EXCEPT ![t] = "accepted"]
    /\ UNCHANGED <<registry, lock, hroom, huser, htoken, group_members, hframe, nframes, nfails,
                   stack, running, received, heard, history>>

\* lines 57-73: the token is checked; the handler waits in websocket.close
\* with the reason of the check that failed (and then returns), or goes
\* on to db.get_group
HandlerAuthenticate(t) ==
    /\ Idle(t)
    /\ hpc[t] = "accepted"
    /\ hpc' = [hpc EXCEPT ![t] = Verdict(htoken[t])]
    /\ UNCHANGED <<registry, lock, hroom, huser, htoken, group_members, hframe, nframes, nfails,
                   stack, running, received, heard, history>>

\* lines 78-95: the store says whether the user is a member of the room;
\* a member's handler goes on to line 97
HandlerAuthorize(t) ==
    /\ Idle(t)
    /\ hpc[t] = "authenticated"
    /\ \E member \in BOOLEAN :
          hpc' = [hpc EXCEPT ![t] = IF member THEN "new"
                                   ELSE "4003 Not a member of this group"]
    /\ UNCHANGED <<registry, lock, hroom, huser, htoken, group_members, hframe, nframes, nfails,
                   stack, running, received, heard, history>>

Auth(t) ==
    \/ HandlerAccept(t)
    \/ HandlerAuthenticate(t)
    \/ HandlerAuthorize(t)

\* AuthSessions sessions from the call of the handler on
NextAuth == \E t \in 1..AuthSessions : Auth(t) \/ Core(t)

SpecAuth == InitAuth /\ [][NextAuth]_vars

(***************************************************************************)
(* Scheduling: the event loop resumes every task that can go on, and the   *)
(* transport ends every send, by taking the event or by raising.  When a   *)
(* client connects and when it closes is up to the client.                 *)
(***************************************************************************)
LiveSessions == 2   \* sessions of the specification with fairness

Progress(t) ==
    \/ Acquire(t)
    \/ Wake(t)
    \/ ConnectRegister(t)
    \/ ReleaseAndBroadcast(t)
    \/ Return(t)
    \/ DisconnectPop(t)
    \/ DisconnectRelease(t)
    \/ BroadcastStart(t)
    \/ BroadcastNext(t)
    \/ BroadcastIterError(t)
    \/ SendOk(t)
    \/ SendFail(t)
    \/ BroadcastCleanup(t)
    \/ HandlerReceive(t)
    \/ HandlerClosed(t)

NextLive == \E t \in 1..LiveSessions : Core(t)

SpecLive ==
    /\ Init
    /\ [][NextLive]_vars
    /\ \A t \in 1..LiveSessions : WF_vars(Progress(t))

(***************************************************************************)
(* Properties                                                              *)
(***************************************************************************)
RoomsOf(c) == {r \in DOMAIN group_connections : c \in group_connections[r]}
Members(r) ==
    IF r \in DOMAIN group_connections THEN group_connections[r] ELSE {}
OnlineEvent(c) == Event("user_online", huser[c], c, 0)
OfflineEvent(c) == Event("user_offline", huser[c], c, 0)
BroadcastFrames(t) ==
    {i \in 1..Depth(t) : stack[t][i].fn = "broadcast"}
\* the task waits for the lock inside its own `async with` block on it
SelfBlocked(t) ==
    /\ Depth(t) > 0
    /\ Top(t).pc = "waiting"
    /\ InLock(t)

\* C1: in every reachable state each connection is in the membership set
\* of at most one room.
C1_AtMostOneRoom ==
    \A c \in Conns : Cardinality(RoomsOf(c)) <= 1

\* two rooms have members while a typing flag is set
C1_Witness ==
    /\ Cardinality(DOMAIN group_connections) = 2
    /\ \E r \in DOMAIN typing_users : typing_users[r] # {}

\* C2: no call of disconnect or broadcast_to_group blocks for ever on the
\* lock.  asyncio.Lock is not re-entrant: a task that waits for the lock
\* inside its own `async with` block on it is never woken and never
\* leaves the block, so the claim rules every such state out.
C2_NoTaskBlocksItself ==
    \A t \in Tasks : ~SelfBlocked(t)

\* C3: once a broadcast in which the send to c failed has returned, c is in
\* no room's set and not in connection_info, and every connection that
\* remained in c's room has taken the user_offline event of c exactly once
\* (and no other connection has taken it).
C3_FailedIsRemoved ==
    \A c \in Conns :
      absorbed[c] > 0 =>
        /\ c \notin DOMAIN connection_info
        /\ RoomsOf(c) = {}
        /\ \A d \in Conns :
              Count(received[d], OfflineEvent(c)) =
                 IF d \in left[c] THEN 1 ELSE 0

\* the send to c failed in two broadcasts, both have returned, another
\* connection stayed in the room and c's own session has disconnected too
C3_Witness ==
    \E c \in Conns :
        /\ absorbed[c] = 2
        /\ left[c] # {}
        /\ hpc[c] = "closed"

\* C4: the disconnect of a connection that a disconnect has deregistered
\* before changes neither group_connections, connection_info nor
\* typing_users, sends nothing and calls no broadcast.
C4_SecondDisconnect ==
    [][\A t \in Tasks :
          (At(t, "disconnect", "locked") /\ Top(t).ws \in removed)
          => /\ registry' = registry
             /\ received' = received
             /\ Depth(t)' = Depth(t)
             /\ Top(t)'.pc = "unlock"]_vars

\* a second disconnect has found nothing to remove
C4_Witness ==
    \E t \in Tasks :
        /\ At(t, "disconnect", "unlock")
        /\ Top(t).ws \in removed

\* C5: once connect(c) is over, c has not taken its own user_online event
\* and every other connection that was in the room when c was registered
\* and is still in it has taken the event exactly once (a connection
\* whose transport failed a send is not counted).
C5_OnlineReachesOthers ==
    \A c \in Conns :
        hpc[c] \in {"receive", "aborted"} =>
            /\ Count(received[c], OnlineEvent(c)) = 0
            /\ \A d \in (peers[c] \cap Members(hroom[c])) \ dropped :
                  Count(received[d], OnlineEvent(c)) = 1

\* C6: two connections that have both taken two chat events have taken
\* them in the same order.
Index(q, e) == CHOOSE i \in 1..Len(q) : q[i] = e
C6_SameOrderEverywhere ==
    \A c, d \in Conns :
        \A e1, e2 \in Range(heard[c]) \cap Range(heard[d]) :
            Index(heard[c], e1) < Index(heard[c], e2)
               => Index(heard[d], e1) < Index(heard[d], e2)

\* C7: a broadcast is not disturbed by a registration or deregistration in
\* its room while it is suspended in a send: when the send is over, the
\* iteration does not find the set changed, so the broadcast goes on to
\* the connections left and does not raise.
C7_IterationUndisturbed ==
    \A t \in Tasks :
        At(t, "broadcast", "next") => ~IterChanged(Top(t))

\* C8: no task is suspended in a send while it is inside an `async with`
\* block on the lock.
C8_NoSendUnderLock ==
    \A t \in Tasks :
        (Depth(t) > 0 /\ Top(t).pc = "sending") => ~InLock(t)

\* C9: a step that changes group_connections, connection_info or
\* typing_users is a step of a task that is inside an `async with` block
\* on the lock, and at most one task is inside such a block.
C9_MutationUnderLock ==
    [][/\ registry' # registry => (running \in Tasks /\ InLock(running))
       /\ Cardinality(Holders) <= 1
       /\ Cardinality(Holders') <= 1]_vars

\* a typing flag has just been set by the task that holds the lock while
\* another task queues for the lock
C9_Witness ==
    \E t \in Tasks :
        /\ At(t, "set_typing", "unlock")
        /\ waiters # << >>

\* C10: a broadcast in which a send failed ends by returning to its
\* caller, after the disconnect of the connection whose send failed: it
\* neither raises nor blocks for ever.
C10_FailureAbsorbed ==
    /\ dropped = {}
    /\ \A t \in Tasks :
          (\E i \in BroadcastFrames(t) : stack[t][i].dead # << >>)
             => ~SelfBlocked(t)

\* lines 266-268: the users flagged as typing in a room
get_typing_users(r) ==
    IF r \in DOMAIN typing_users THEN typing_users[r] ELSE {}

\* the frame of the coroutine that called the one the task is in
Caller(t) == stack[t][Depth(t) - 1]

\* C11: a failed send takes down the failed connection only.  A step that
\* removes a connection d from connection_info or from a room's set is the
\* disconnect of d, called by d's own session at its end or by the cleanup
\* of a broadcast in which the send to d itself failed; and a step that
\* changes the typing flag of a user is a set_typing or clear_typing for
\* that user or the disconnect of a connection of that user.
C11_OnlyTheFailedOne ==
    [][/\ \A d \in DOMAIN connection_info :
            (d \notin DOMAIN connection_info' \/ RoomsOf(d)' # RoomsOf(d)) =>
               /\ running \in Tasks
               /\ At(running, "disconnect", "locked")
               /\ Top(running).ws = d
               /\ \/ Depth(running) = 1 /\ running = d /\ hpc[d] = "closing"
                  \/ /\ Depth(running) > 1
                     /\ Caller(running).fn = "broadcast"
                     /\ d \in Range(Caller(running).dead)
       /\ \A r \in Rooms, u \in Users :
            ((u \in get_typing_users(r)) # (u \in get_typing_users(r)')) =>
               /\ running \in Tasks
               /\ Depth(running) > 0
               /\ \/ /\ Top(running).fn \in {"set_typing", "clear_typing"}
                     /\ Top(running).user = u
                     /\ Top(running).room = r
                  \/ /\ Top(running).fn = "disconnect"
                     /\ Top(running).ws \in DOMAIN connection_info
                     /\ connection_info[Top(running).ws] = <<u, r>>]_vars

\* the cleanup of a broadcast has deregistered the connection whose send
\* failed while another user of the room is flagged as typing and another
\* connection is still registered
C11_Witness ==
    \E t \in Tasks :
        /\ Depth(t) > 2
        /\ Caller(t).fn = "disconnect"
        /\ Caller(t).pc = "inner"
        /\ Caller(t).ws \in removed
        /\ Caller(t).ws # t
        /\ t \in DOMAIN connection_info
        /\ huser[t] # huser[Caller(t).ws]
        /\ huser[t] \in get_typing_users(hroom[t])

\* the user_online event of c is in a broadcast or has been taken
Announced(c) ==
    \/ \E d \in Conns : Count(received[d], OnlineEvent(c)) > 0
    \/ \E t \in Tasks : \E i \in 1..Depth(t) :
          stack[t][i].msg.type = "user_online" /\ stack[t][i].ws = c

\* C12: a connection is registered only after accept, a token that yields
\* a user id and a confirmed membership, in that order.  A session whose
\* token is missing or fails verification, or whose user is not a member,
\* ends in websocket.close with the reason of the check that failed; its
\* connection is never in group_connections or connection_info and no
\* user_online event is made for it.
C12_RegisteredAfterChecks ==
    [][\A t \in Tasks :
         /\ (hpc'[t] # hpc[t] /\ hpc'[t] = "accepted") => hpc[t] = "opened"
         /\ (hpc'[t] # hpc[t] /\ hpc'[t] = "authenticated") =>
               hpc[t] = "accepted" /\ htoken[t] = "valid"
         /\ (hpc'[t] # hpc[t] /\ hpc'[t] = "new") => hpc[t] = "authenticated"
         /\ (hpc'[t] # hpc[t] /\ hpc'[t] = "connecting") => hpc[t] = "new"
         /\ (t \in DOMAIN connection_info' \/ RoomsOf(t)' # {} \/ Announced(t)')
               => hpc'[t] \notin {"opened", "accepted", "authenticated", "new"}
                                 \cup CloseReasons
         /\ htoken[t] # "valid" =>
               hpc'[t] \in {"opened", "accepted"} \cup CloseReasons
         /\ hpc'[t] \in CloseReasons =>
               /\ hpc[t] \in {"accepted", "authenticated", hpc'[t]}
               /\ htoken[t] = "missing" <=> hpc'[t] = "4001 Missing token"
               /\ htoken[t] \in {"garbled", "nosub"} <=>
                     hpc'[t] \in {"4001 Invalid token",
                                  "4001 Authentication failed"}
               /\ htoken[t] = "valid" <=>
                     hpc'[t] = "4003 Not a member of this group"]_vars

\* a session without a token and a session of a user who is not a member
\* have been closed, each for its reason, while a third session has been
\* registered and announced
C12_Witness ==
    \E a, b, c \in Tasks :
        /\ hpc[a] = "4001 Missing token"
        /\ hpc[b] = "4003 Not a member of this group"
        /\ hpc[c] = "receive"
        /\ c \in DOMAIN connection_info

\* C13: a registered connection whose session has left the receive loop
\* is deregistered in the end: the handler ends and the connection is in
\* neither group_connections nor connection_info.
C13_EventuallyDeregistered ==
    \A t \in Tasks :
        (hpc[t] = "closing") ~>
            /\ hpc[t] \in {"closed", "aborted"}
            /\ t \notin DOMAIN connection_info
            /\ RoomsOf(t) = {}

MessageEvent(t) == Event("new_message", huser[t], t, hframe[t])

\* C15: when the handler is back in its receive loop after a message
\* frame whose message was stored and broadcast, the sender is not in the
\* typing set of the room (as long as no later frame has been dispatched).
C15_MessageClearsTyping ==
    \A t \in Tasks :
        ( /\ hpc[t] = "receive"
          /\ hframe[t] = nframes
          /\ \E d \in Conns : Count(received[d], MessageEvent(t)) > 0 )
        => huser[t] \notin get_typing_users(hroom[t])

\* C16: when the set_typing call of a typing frame of session a has
\* returned and no send has failed, every connection registered in the
\* room, a's own included, has taken the typing_start event of that frame,
\* with a's user id, exactly once; likewise the typing_stop event when the
\* clear_typing call of a stop_typing frame has returned.
C16_TypingReachesRoom ==
    \A a \in Tasks :
        /\ (At(a, "set_typing", "ret") /\ nfails = 0) =>
              \A b \in Members(hroom[a]) :
                 Count(received[b],
                       Event("typing_start", huser[a], a, hframe[a])) = 1
        /\ (At(a, "clear_typing", "ret") /\ nfails = 0) =>
              \A b \in Members(hroom[a]) :
                 Count(received[b],
                       Event("typing_stop", huser[a], a, hframe[a])) = 1

\* A and B, of two users, are registered in one room; A has sent typing
\* and then stop_typing, and B has taken one typing_start and then one
\* typing_stop of A
C16_Witness ==
    \E a, b \in Tasks :
        /\ At(a, "clear_typing", "ret")
        /\ a # b
        /\ huser[a] # huser[b]
        /\ {a, b} = Members(hroom[a])
        /\ heard[b] = <<Event("typing_start", huser[a], a, 1),
                        Event("typing_stop", huser[a], a, 2)>>

\* C17: the disconnect that deregisters a connection of user u from room r
\* while u is in the typing set of r takes u out of the set and calls a
\* broadcast of a typing_stop event for u to the room, when connections
\* remain in it.
C17_DisconnectClearsTyping ==
    [][\A t \in Tasks :
          ( /\ At(t, "disconnect", "locked")
            /\ Top(t).ws \in DOMAIN connection_info
            /\ connection_info[Top(t).ws][1] \in
                  get_typing_users(connection_info[Top(t).ws][2])
            /\ Members(connection_info[Top(t).ws][2]) \ {Top(t).ws} # {} )
          => LET u == connection_info[Top(t).ws][1]
                 r == connection_info[Top(t).ws][2]
             IN /\ r \in DOMAIN typing_users' => u \notin typing_users'[r]
                /\ \E i \in 1..Len(stack'[t]) :
                      /\ stack'[t][i].fn = "broadcast"
                      /\ stack'[t][i].room = r
                      /\ stack'[t][i].msg.type = "typing_stop"
                      /\ stack'[t][i].msg.user = u]_vars

\* lines 255-264: the list of the owners of the room's connections, one
\* element for each connection, in the order the set is walked in
Listed(S) ==
    [k \in 1..Cardinality(S) |->
        CHOOSE c \in S : Cardinality({d \in S : d <= c}) = k]
get_online_users(r) ==
    IF r \notin DOMAIN group_connections
    THEN << >>
    ELSE LET conns == Listed({c \in group_connections[r] :
                                 c \in DOMAIN connection_info})
         IN [k \in 1..Len(conns) |-> connection_info[conns[k]][1]]

\* C18: whenever the lock is free, group_connections has no key with an
\* empty set: a room without connections has no key, and the list of its
\* online users is empty.
C18_NoEmptyRoom ==
    ~locked =>
        \A r \in Rooms :
            /\ r \in DOMAIN group_connections => group_connections[r] # {}
            /\ Members(r) = {} =>
                  /\ r \notin DOMAIN group_connections
                  /\ get_online_users(r) = << >>

\* the last connection of a room has been deregistered and the lock
\* released, while another room still has connections
C18_Witness ==
    /\ ~locked
    /\ DOMAIN group_connections # {}
    /\ \E c \in removed :
          /\ left[c] = {}
          /\ hpc[c] = "closed"
          /\ hroom[c] \notin DOMAIN group_connections

\* C19: typing_users never holds an empty set: when clear_typing or
\* disconnect takes the last user out of a room's typing set, the room's
\* key is deleted.
C19_NoEmptyTypingSet ==
    \A r \in DOMAIN typing_users : typing_users[r] # {}

\* C20: get_online_users(r) has each user who owns a connection of r
\* exactly once, and nobody else.
C20_OnlineUsersDistinct ==
    \A r \in Rooms :
        LET online == get_online_users(r) IN
        /\ Range(online) = {connection_info[c][1] : c \in Members(r)}
        /\ \A i, j \in 1..Len(online) : online[i] = online[j] => i = j

\* C21: a message frame that is not stored, because its trimmed content
\* is empty or because the store returns nothing or raises, changes none
\* of the three maps, calls no broadcast, sends nothing, and leaves the
\* handler in its receive loop.
C21_UnstoredMessageIsSilent ==
    [][\A t \in Tasks :
         /\ ( \/ hpc[t] = "receive" /\ hpc'[t] \in {"empty", "db_send"}
              \/ hpc[t] = "empty" /\ hpc'[t] # "empty"
              \/ hpc[t] = "db_send" /\ hpc'[t] = "receive" )
            => /\ registry' = registry
               /\ lock' = lock
               /\ received' = received
               /\ stack'[t] = << >>
         /\ hpc[t] = "empty" => hpc'[t] \in {"empty", "receive"}]_vars

\* a session whose user is flagged as typing has sent a message frame
\* with empty content, with another connection in the room
C21_Witness ==
    \E a, b \in Tasks :
        /\ a # b
        /\ hpc[a] = "empty"
        /\ hframe[a] = 2
        /\ {a, b} = Members(hroom[a])
        /\ huser[a] \in get_typing_users(hroom[a])
        /\ heard[b] = <<Event("typing_start", huser[a], a, 1)>>

\* C22: a frame that does not parse, or whose type is missing or unknown,
\* changes none of the three maps, calls no broadcast and sends nothing;
\* the connection stays registered and the handler goes back to its
\* receive loop for the next frame.
C22_MalformedIsIgnored ==
    [][\A t \in Tasks :
         /\ ( \/ hpc[t] = "receive" /\ hpc'[t] = "malformed"
              \/ hpc[t] = "malformed" /\ hpc'[t] # "malformed" )
            => /\ registry' = registry
               /\ lock' = lock
               /\ received' = received
               /\ stack'[t] = << >>
         /\ hpc[t] = "malformed" => hpc'[t] \in {"malformed", "receive"}]_vars

\* a registered session that has had a typing frame dealt with has sent a
\* malformed frame next
C22_Witness ==
    \E a \in Tasks :
        /\ hpc[a] = "malformed"
        /\ hframe[a] = 2
        /\ a \in DOMAIN connection_info
        /\ huser[a] \in get_typing_users(hroom[a])
        /\ heard[a] = <<Event("typing_start", huser[a], a, 1)>>

\* the step is one of task t, which is inside send_to_user
InSendToUser(t) ==
    /\ Depth(t) > 0
    /\ Top(t).fn = "send_to_user"
    /\ \/ running = t
       \/ Top(t).pc = "sending" /\ stack'[t][Depth(t)].pc # "sending"

\* C23: send_to_user(r, u, event) starts a send to a connection of r it
\* comes to if and only if the connection is owned by u; no step of it,
\* a failed send included, changes the three maps, takes the lock or
\* calls a broadcast or a disconnect; and when the call is over, a send
\* has been started to every connection of u that was in r at call time
\* and still is.
C23_SendToUser ==
    [][\A t \in Tasks :
         InSendToUser(t) =>
           LET f == Top(t) IN
           /\ registry' = registry
           /\ lock' = lock
           /\ \A i \in 1..Len(stack'[t]) : stack'[t][i].fn = "send_to_user"
           /\ (f.pc = "next" /\ stack'[t] # << >>) =>
                LET g == stack'[t][1] IN
                /\ g.pc = "sending" =>
                     /\ g.cur \in Members(f.room)
                     /\ connection_info[g.cur] = <<f.user, f.room>>
                /\ (g.pc = "next" /\ g.pos # f.pos) =>
                     ~(g.pos \in DOMAIN connection_info
                       /\ connection_info[g.pos][1] = f.user)
           /\ (f.pc = "next" /\ stack'[t] = << >>) =>
                \A c \in f.snap \cap Members(f.room) :
                   connection_info[c][1] = f.user => c \in f.tried]_vars


\* the paths that broadcast a stored message: the session's message frame,
\* POST /{group_id}/messages and POST /{group_id}/stream-share
MessagePaths == {"msg_bcast", "http_send", "http_share"}

\* C24: on each of the three paths that broadcast a stored message, the
\* broadcast is one of a new_message event of the sender to the room of
\* the call with no connection excluded, and its iteration starts a send
\* to every connection it comes to, the sender's own included.
C24_EchoOnEveryPath ==
    [][\A t \in Tasks :
         (hpc'[t] \in MessagePaths /\ stack'[t] # << >>) =>
            LET g == stack'[t][1] IN
            /\ g.fn = "broadcast"
            /\ g.msg.type = "new_message"
            /\ g.msg.user = huser'[t]
            /\ g.room = hroom'[t]
            /\ g.exclude = NoConn
            /\ ( /\ running = t
                 /\ Len(stack[t]) = 1
                 /\ stack[t][1].pc = "next"
                 /\ Len(stack'[t]) = 1
                 /\ g.pos # stack[t][1].pos )
               => g.pc = "sending" /\ g.cur = g.pos]_vars

\* a message of the stream-share endpoint has been taken by a connection
\* of its sender and by a connection of another user of the room
C24_Witness ==
    /\ hpc[Requester] = "http_share"
    /\ \E c, d \in DOMAIN connection_info :
          /\ connection_info[c] = <<huser[Requester], hroom[Requester]>>
          /\ connection_info[d][1] # huser[Requester]
          /\ \A x \in {c, d} :
                Count(received[x],
                      Event("new_message", huser[Requester], NoConn, 1)) = 1

\* C25: in every state in which the lock is free, a connection is a key
\* of connection_info with the room r in its value if and only if it is in
\* group_connections[r]; so the keys of connection_info are the union of
\* the rooms' sets.
C25_MapsAgree ==
    ~locked =>
       /\ \A c \in Conns, r \in Rooms :
             (c \in DOMAIN connection_info /\ connection_info[c][2] = r)
                <=> c \in Members(r)
       /\ DOMAIN connection_info =
             UNION {group_connections[r] : r \in DOMAIN group_connections}

\* the lock is free, two rooms have connections and a third connection has
\* been deregistered
C25_Witness ==
    /\ ~locked
    /\ Cardinality(DOMAIN group_connections) = 2
    /\ Cardinality(DOMAIN connection_info) = 2
    /\ removed # {}

\* the users with a connection registered in room r
Present(r) == {connection_info[c][1] : c \in Members(r)}

\* C26: in every reachable state every user in a room's typing set owns a
\* connection that is registered in that room.
C26_TypingImpliesPresence ==
    \A r \in DOMAIN typing_users : typing_users[r] \subseteq Present(r)

\* C27: when disconnect calls the broadcast of a user_offline event for
\* user u to room r, no connection of u is left in r.
C27_OfflineMeansGone ==
    [][\A t \in Tasks :
         (At(t, "disconnect", "locked") /\ Top(t).ws \in DOMAIN connection_info)
         => LET u == connection_info[Top(t).ws][1]
                r == connection_info[Top(t).ws][2]
                g == stack'[t][Len(stack'[t])]
            IN (g.fn = "broadcast" /\ g.msg.type = "user_offline"
                  /\ g.msg.user = u)
               => \A c \in Conns :
                     (r \in DOMAIN group_connections'
                         /\ c \in group_connections'[r])
                       => connection_info'[c][1] # u]_vars

\* C28: every typing_stop event for a user that a connection has taken
\* comes after a typing_start event for that user which the connection has
\* taken and which no typing_stop event for the user has followed yet.
C28_StopFollowsStart ==
    \A c \in Conns : \A i \in 1..Len(heard[c]) :
       heard[c][i].type = "typing_stop" =>
          \E j \in 1..(i - 1) :
             /\ heard[c][j].type = "typing_start"
             /\ heard[c][j].user = heard[c][i].user
             /\ \A k \in (j + 1)..(i - 1) :
                   ~(heard[c][k].type = "typing_stop"
                       /\ heard[c][k].user = heard[c][i].user)

\* C29: in every reachable state the owner of every registered connection
\* of a room has a row for that room in the store's group_members table.
C29_RegisteredAreMembers ==
    \A c \in DOMAIN connection_info :
       <<connection_info[c][2], connection_info[c][1]>> \in group_members

\* C30: the disconnect that deregisters a connection of user u from room r
\* while another connection of u is registered in r leaves u's typing flag
\* in r as it is.
C30_TypingKeptForOtherConnection ==
    [][\A t \in Tasks :
         (At(t, "disconnect", "locked") /\ Top(t).ws \in DOMAIN connection_info)
         => LET u == connection_info[Top(t).ws][1]
                r == connection_info[Top(t).ws][2]
            IN ( /\ u \in get_typing_users(r)
                 /\ \E c \in Members(r) \ {Top(t).ws} :
                       connection_info[c][1] = u )
               => (r \in DOMAIN typing_users' /\ u \in typing_users'[r])]_vars

====
